---- MODULE Spec2Model ----
(***************************************************************************)
(* A model of internal/lsp/diff/diff.go: the Myers line diff               *)
(* (shortestEditSequence, backtrack, Operations), the replay helper        *)
(* ApplyEdits and the terminator-tolerant comparer stringEqualIgnoreLF.    *)
(*                                                                         *)
(* A line is a sequence of characters; a Go slice index i is the TLA+      *)
(* sequence index i+1.  A Go run-time panic (index out of range) is an     *)
(* explicit outcome of the operator that would raise it.                   *)
(***************************************************************************)
EXTENDS Integers, Sequences, FiniteSets, TLC

VARIABLES
    a, b,        \* the caller's two line sequences (b is also the array
                 \* the Insert contents are windows onto)
    pc,          \* where the caller is: start, returned, applied,
                 \* overwritten, panic
    sesOut,      \* what shortestEditSequence returned inside Operations
    btOut,       \* what backtrack returned inside Operations
    solution,    \* the list Operations returned
    applied,     \* the list ApplyEdits returned
    cmpA, cmpB,  \* the two lines given to stringEqualIgnoreLF
    cmpRes       \* its outcome

vars == <<a, b, pc, sesOut, btOut, solution, applied, cmpA, cmpB, cmpRes>>

diffVars == <<a, b, pc, sesOut, btOut, solution, applied>>
cmpVars == <<cmpA, cmpB, cmpRes>>

(***************************************************************************)
(* Bounds and input sets.                                                  *)
(***************************************************************************)
\* longest line sequence given to Operations
MaxLen == 3
\* longest line given to the comparer on its own
MaxLineLen == 3

CR == "CR"
LF == "LF"
Chars == {"a", "b", CR, LF}

RECURSIVE StringsUpTo(_)
StringsUpTo(n) ==
    IF n = 0 THEN {<<>>}
    ELSE LET S == StringsUpTo(n - 1)
         IN S \cup {Append(s, c) : s \in {t \in S : Len(t) = n - 1}, c \in Chars}

\* the lines the comparer is tried on: every string of at most MaxLineLen chars
Strings == StringsUpTo(MaxLineLen)

\* the lines the diff is tried on.  A line sequence has the shape SplitLines
\* gives: every line but the last ends in a terminator (LF or CR LF), the
\* last one may lack it
TermLines == { <<"a", LF>>, <<"a", CR, LF>>, <<"b", LF>> }
LastLines == { <<"a">>, <<"b">> }

RECURSIVE TermSeqs(_)
TermSeqs(n) ==
    IF n = 0 THEN {<<>>}
    ELSE {Append(s, l) : s \in TermSeqs(n - 1), l \in TermLines}

LineSeqs ==
    {<<>>} \cup UNION { {Append(s, l) : s \in TermSeqs(n - 1),
                                        l \in TermLines \cup LastLines}
                        : n \in 1..MaxLen }

(***************************************************************************)
(* stringEqualIgnoreLF (diff.go 82-105).                                   *)
(***************************************************************************)
\* la after lines 84-88: the compared length of a line
cmpLen(s) ==
    LET l == Len(s) - 1
    IN IF l > 0 /\ s[l] = CR THEN l - 1 ELSE l

\* the loop of lines 98-102 reads s[i] and t[i] for i = 0 .. until the first
\* mismatch; an index fault is a read at i >= len
cmpFault(s, t) ==
    /\ cmpLen(s) = cmpLen(t)
    /\ \E i \in 0..(cmpLen(s) - 1) :
          /\ i >= Len(s) \/ i >= Len(t)
          /\ \A j \in 0..(i - 1) : s[j + 1] = t[j + 1]

stringEqualIgnoreLF(s, t) ==
    IF cmpLen(s) # cmpLen(t) THEN FALSE
    ELSE \A i \in 0..(cmpLen(s) - 1) : s[i + 1] = t[i + 1]

(***************************************************************************)
(* shortestEditSequence (diff.go 264-311).                                 *)
(***************************************************************************)
\* V[i] of a Go slice held as a sequence
At(V, i) == V[i + 1]
InRange(V, i) == i >= 0 /\ i < Len(V)
Zeros(n) == [i \in 1..n |-> 0]

\* Slide with an if for the for: the run stops after one equal pair
SlideOnce(A, B, x, y) ==
    IF x < Len(A) /\ y < Len(B) /\ stringEqualIgnoreLF(A[x + 1], B[y + 1])
    THEN x + 1
    ELSE x

\* lines 290-293: the diagonal run from (x, y)
RECURSIVE Slide(_, _, _, _)
Slide(A, B, x, y) ==
    IF x < Len(A) /\ y < Len(B) /\ stringEqualIgnoreLF(A[x + 1], B[y + 1])
    THEN Slide(A, B, x + 1, y + 1)
    ELSE x

\* line 281: the choice between the down and the right move
GoesDown(V, off, d, k) ==
    k = -d \/ (k # d /\ At(V, k - 1 + off) < At(V, k + 1 + off))

\* the indices of V that the condition of lines 281 and 248 reads: none when
\* k == -d or k == d decides it
CondReads(off, d, k) ==
    IF k = -d \/ k = d THEN {} ELSE {k - 1 + off, k + 1 + off}

\* lines 276-304: the loop over the diagonals k of one depth d
RECURSIVE sesK(_, _, _, _, _)
sesK(A, B, V, d, k) ==
    LET off == Len(A) + Len(B)
    IN IF k > d THEN [status |-> "next", V |-> V]
       ELSE IF \E i \in CondReads(off, d, k) : ~InRange(V, i)
            THEN [status |-> "panic", V |-> V]
       ELSE LET down == GoesDown(V, off, d, k)
                from == IF down THEN k + 1 + off ELSE k - 1 + off
                x0 == IF down THEN At(V, from) ELSE At(V, from) + 1
                x == Slide(A, B, x0, x0 - k)
                y == x - k
                W == [V EXCEPT ![k + off + 1] = x]
            IN IF ~InRange(V, from) \/ ~InRange(V, k + off)
               THEN [status |-> "panic", V |-> V]
               ELSE IF x = Len(A) /\ y = Len(B)
               THEN [status |-> "return", V |-> W]
               ELSE sesK(A, B, W, d, k + 2)

\* lines 272-310: the loop over depths; tr[d + 1] is trace[d], <<>> is nil
RECURSIVE sesD(_, _, _, _, _)
sesD(A, B, V, tr, d) ==
    IF d > Len(A) + Len(B)
    THEN [status |-> "fallthrough", trace |-> <<>>, offset |-> 0, depth |-> d]
    ELSE LET r == sesK(A, B, V, d, -d)
         IN IF r.status = "panic"
            THEN [status |-> "panic", trace |-> <<>>, offset |-> 0, depth |-> d]
            ELSE IF r.status = "return"
            THEN [status |-> "return", trace |-> [tr EXCEPT ![d + 1] = r.V],
                  offset |-> Len(A) + Len(B), depth |-> d]
            ELSE sesD(A, B, r.V, [tr EXCEPT ![d + 1] = r.V], d + 1)

shortestEditSequence(A, B) ==
    sesD(A, B, Zeros(2 * (Len(A) + Len(B)) + 1),
         [i \in 1..(Len(A) + Len(B) + 1) |-> <<>>], 0)

(***************************************************************************)
(* backtrack (diff.go 235-262).                                            *)
(***************************************************************************)
\* CameDown with the comparison turned round
CameDownFlipped(V, off, d, k) ==
    k = -d \/ (k # d /\ At(V, k - 1 + off) > At(V, k + 1 + off))

\* CameDown with its two branches exchanged
CameDownNegated(V, off, d, k) ==
    ~(k = -d \/ (k # d /\ At(V, k - 1 + off) < At(V, k + 1 + off)))

\* line 248: the diagonal the point on k at depth d was reached from
CameDown(V, off, d, k) ==
    k = -d \/ (k # d /\ At(V, k - 1 + off) < At(V, k + 1 + off))

\* lines 238-256, then 257-261.  sn[d + 1] is snakes[d], <<>> is nil; seen
\* is the list of positions the loop computes at lines 254-255
RECURSIVE backtrackLoop(_, _, _, _, _, _, _)
backtrackLoop(tr, off, sn, x, y, d, seen) ==
    IF x > 0 /\ y > 0 /\ d > 0
    THEN LET V == tr[d + 1]
         IN IF Len(V) = 0
            THEN backtrackLoop(tr, off, sn, x, y, d - 1, seen)
            ELSE LET k == x - y
                 IN IF \E i \in CondReads(off, d, k) : ~InRange(V, i)
                    THEN [status |-> "panic", snakes |-> sn, walk |-> seen]
                    ELSE LET kPrev == IF CameDown(V, off, d, k)
                                      THEN k + 1 ELSE k - 1
                             xp == At(V, kPrev + off)
                             yp == xp - kPrev
                         IN IF ~InRange(V, kPrev + off)
                            THEN [status |-> "panic", snakes |-> sn,
                                  walk |-> seen]
                            ELSE backtrackLoop(tr, off,
                                               [sn EXCEPT ![d + 1] = <<x, y>>],
                                               xp, yp, d - 1,
                                               Append(seen, <<xp, yp>>))
    ELSE IF x < 0 \/ y < 0
         THEN [status |-> "early", snakes |-> sn, walk |-> seen]
    ELSE IF ~InRange(sn, d)
         THEN [status |-> "panic", snakes |-> sn, walk |-> seen]
    ELSE [status |-> "return", snakes |-> [sn EXCEPT ![d + 1] = <<x, y>>],
          walk |-> seen]

backtrack(tr, x, y, off) ==
    backtrackLoop(tr, off, [i \in 1..Len(tr) |-> <<>>], x, y, Len(tr) - 1, <<>>)

(***************************************************************************)
(* Op (diff.go 16-29) and Operations (diff.go 161-230).                    *)
(***************************************************************************)
Delete == "delete"
Insert == "insert"
Equal == "equal"

\* a Content value is a Go slice: nil, or a window lo..hi onto the backing
\* array of the caller's b, or (base "own") an array of its own
NilSlice == [base |-> "nil", lo |-> 0, hi |-> 0, own |-> <<>>]

\* sliceOfB as a copy: a fresh array holding the lines of b[lo:hi]
copyOfB(B, lo, hi) ==
    [base |-> "own", lo |-> lo, hi |-> hi, own |-> SubSeq(B, lo + 1, hi)]

\* line 176: the slice expression b[op.J1:j2]
sliceOfB(B, lo, hi) == [base |-> "b", lo |-> lo, hi |-> hi, own |-> <<>>]

\* the lines a Content slice holds, given the present contents of b
Deref(c, B) ==
    IF c.base = "b" THEN SubSeq(B, c.lo + 1, c.hi) ELSE c.own

\* lines 194-198 and 210-214: &Op{Kind: kind, I1: x, J1: y}
NewOp(kind, x, y) ==
    [Kind |-> kind, Content |-> NilSlice, I1 |-> x, I2 |-> 0, J1 |-> y]

\* add without line 174: the operation keeps the I2 it was made with
addKeepingI2(B, cap, st, op, i2, j2) ==
    IF op = <<>> THEN st
    ELSE LET o == op[1]
             p == IF o.Kind = "insert"
                  THEN [o EXCEPT !.Content =
                           [base |-> "b", lo |-> o.J1, hi |-> j2, own |-> <<>>]]
                  ELSE o
         IN [st EXCEPT !.ops = Append(st.ops, p)]

\* lines 170-184: the add closure; op is <<>> (nil) or <<an Op>>, st is the
\* pair of solution[:i] and a panic flag for a write past len(solution)
add(B, cap, st, op, i2, j2) ==
    IF op = <<>> THEN st
    ELSE LET o == [op[1] EXCEPT !.I2 = i2]
             p == IF o.Kind = Insert
                  THEN [o EXCEPT !.Content = sliceOfB(B, o.J1, j2)]
                  ELSE o
         IN IF st.status = "panic" \/ Len(st.ops) >= cap
               \/ (o.Kind = Insert /\ (o.J1 > j2 \/ j2 > Len(B)))
            THEN [st EXCEPT !.status = "panic"]
            ELSE [st EXCEPT !.ops = Append(st.ops, p)]

\* lines 192-204: the deletion run, with its break at x == M
RECURSIVE delRun(_, _, _, _)
delRun(sk, x, y, M) ==
    IF sk > x - y
    THEN IF x + 1 = M THEN x + 1 ELSE delRun(sk, x + 1, y, M)
    ELSE x

\* insRun with an if for the for: one line is inserted
insRunOnce(sk, x, y) ==
    IF sk < x - y THEN y + 1 ELSE y

\* lines 208-217: the insertion run
RECURSIVE insRun(_, _, _)
insRun(sk, x, y) ==
    IF sk < x - y THEN insRun(sk, x, y + 1) ELSE y

\* lines 221-224: the equal run
RECURSIVE eqRun(_, _)
eqRun(x, x0) == IF x < x0 THEN eqRun(x + 1, x0) ELSE x

\* lines 186-228: the loop over the snakes
RECURSIVE opsLoop(_, _, _, _, _, _, _)
opsLoop(A, B, sn, idx, x, y, st) ==
    IF idx > Len(sn) THEN st
    ELSE IF Len(sn[idx]) < 2 THEN opsLoop(A, B, sn, idx + 1, x, y, st)
    ELSE LET M == Len(A)
             N == Len(B)
             sk == sn[idx][1] - sn[idx][2]
             opD == IF sk > x - y THEN <<NewOp(Delete, x, y)>> ELSE <<>>
             x1 == delRun(sk, x, y, M)
             st1 == add(B, M + N, st, opD, x1, y)
             opI == IF sk < x1 - y THEN <<NewOp(Insert, x1, y)>> ELSE <<>>
             y1 == insRun(sk, x1, y)
             st2 == add(B, M + N, st1, opI, x1, y1)
             x2 == eqRun(x1, sn[idx][1])
             y2 == y1 + (x2 - x1)
         IN IF x2 >= M /\ y2 >= N THEN st2
            ELSE opsLoop(A, B, sn, idx + 1, x2, y2, st2)

\* lines 161-230: the whole of Operations, with the locals it computes
Operations(A, B) ==
    LET ses == shortestEditSequence(A, B)
        bt == backtrack(ses.trace, Len(A), Len(B), ses.offset)
        st == opsLoop(A, B, bt.snakes, 1, 0, 0, [status |-> "return", ops |-> <<>>])
    IN IF ses.status = "panic"
       THEN [status |-> "panic", ses |-> ses, bt |-> [status |-> "none",
             snakes |-> <<>>, walk |-> <<>>], ops |-> <<>>]
       ELSE IF bt.status = "panic"
       THEN [status |-> "panic", ses |-> ses, bt |-> bt, ops |-> <<>>]
       ELSE [status |-> st.status, ses |-> ses, bt |-> bt, ops |-> st.ops]

(***************************************************************************)
(* ApplyEdits (diff.go 44-67).                                             *)
(***************************************************************************)
\* lines 47-59: the loop over the operations; B is the present contents of
\* the array the Insert contents are windows onto
RECURSIVE applyLoop(_, _, _, _, _, _)
applyLoop(A, B, ops, n, prevI2, out) ==
    IF n > Len(ops) THEN [prevI2 |-> prevI2, out |-> out, status |-> "return"]
    ELSE LET op == ops[n]
             caught == IF op.I1 - prevI2 > 0
                       THEN out \o SubSeq(A, prevI2 + 1, op.I1)
                       ELSE out
             next == IF op.Kind \in {Equal, Insert}
                     THEN caught \o Deref(op.Content, B)
                     ELSE caught
         IN IF op.I1 - prevI2 > 0 /\ (prevI2 < 0 \/ op.I1 > Len(A))
            THEN [prevI2 |-> prevI2, out |-> out, status |-> "panic"]
            ELSE applyLoop(A, B, ops, n + 1, op.I2, next)

\* ApplyEdits with line 58 as prevI2 = op.I1: a Delete skips nothing
ApplyEditsFromI1(A, B, ops) ==
    LET r == applyLoop(A, B, [n \in 1..Len(ops) |-> [ops[n] EXCEPT !.I2 = ops[n].I1]],
                       1, 0, <<>>)
    IN IF Len(A) - r.prevI2 > 0
       THEN [r EXCEPT !.out = r.out \o SubSeq(A, r.prevI2 + 1, Len(A))]
       ELSE r

\* lines 44-67: the loop, then the final catch up of lines 61-65
ApplyEdits(A, B, ops) ==
    LET r == applyLoop(A, B, ops, 1, 0, <<>>)
    IN IF r.status = "panic" THEN r
       ELSE IF Len(A) - r.prevI2 > 0
       THEN IF r.prevI2 < 0
            THEN [r EXCEPT !.status = "panic"]
            ELSE [r EXCEPT !.out = r.out \o SubSeq(A, r.prevI2 + 1, Len(A))]
       ELSE r

(***************************************************************************)
(* The caller: Operations, then ApplyEdits, then a write to its own b.     *)
(***************************************************************************)
NoSes == [status |-> "none", trace |-> <<>>, offset |-> 0, depth |-> 0]
NoBt == [status |-> "none", snakes |-> <<>>, walk |-> <<>>]
NoCmp == [status |-> "none", equal |-> FALSE]

\* the line a caller writes over an element of b once Operations has returned
Scribble == <<"b", "b", LF>>

Init ==
    /\ a \in LineSeqs
    /\ b \in LineSeqs
    /\ pc = "start"
    /\ sesOut = NoSes
    /\ btOut = NoBt
    /\ solution = <<>>
    /\ applied = <<>>
    /\ cmpA = <<>> /\ cmpB = <<>> /\ cmpRes = NoCmp

CallOperations ==
    /\ pc = "start"
    /\ LET r == Operations(a, b)
       IN /\ pc' = IF r.status = "return" THEN "returned" ELSE "panic"
          /\ sesOut' = r.ses
          /\ btOut' = r.bt
          /\ solution' = r.ops
    /\ UNCHANGED <<a, b, applied, cmpVars>>

CallApplyEdits ==
    /\ pc = "returned"
    /\ LET r == ApplyEdits(a, b, solution)
       IN /\ pc' = IF r.status = "return" THEN "applied" ELSE "panic"
          /\ applied' = r.out
    /\ UNCHANGED <<a, b, sesOut, btOut, solution, cmpVars>>

Overwrite ==
    /\ pc = "applied"
    /\ \E j \in 1..Len(b) :
          b' = [b EXCEPT ![j] = Scribble]
    /\ pc' = "overwritten"
    /\ UNCHANGED <<a, sesOut, btOut, solution, applied, cmpVars>>

Next == CallOperations \/ CallApplyEdits \/ Overwrite

Spec == Init /\ [][Next]_vars

(***************************************************************************)
(* The comparer on its own, over every pair of short strings.              *)
(***************************************************************************)
InitCmp ==
    /\ cmpA \in Strings
    /\ cmpB \in Strings
    /\ cmpRes = NoCmp
    /\ a = <<>> /\ b = <<>> /\ pc = "start"
    /\ sesOut = NoSes /\ btOut = NoBt /\ solution = <<>> /\ applied = <<>>

CallStringEqualIgnoreLF ==
    /\ cmpRes.status = "none"
    /\ cmpRes' = IF cmpFault(cmpA, cmpB)
                 THEN [status |-> "panic", equal |-> FALSE]
                 ELSE [status |-> "return",
                       equal |-> stringEqualIgnoreLF(cmpA, cmpB)]
    /\ UNCHANGED <<cmpA, cmpB, diffVars>>

NextCmp == CallStringEqualIgnoreLF

SpecCmp == InitCmp /\ [][NextCmp]_vars

(***************************************************************************)
(* Single-line replacements: a has pairwise unequal lines and b is a with  *)
(* one line replaced by a line unequal to every line of a.                 *)
(***************************************************************************)
ReplPool == { <<"a", LF>>, <<"a", CR, LF>>, <<"b", LF>>, <<"a", "b", LF>>,
              <<"b", "a", LF>>, <<"b">> }

Terminated(l) == Len(l) > 0 /\ l[Len(l)] = LF

PairwiseUnequal(A) ==
    \A i, j \in 1..Len(A) : i # j => ~stringEqualIgnoreLF(A[i], A[j])

RECURSIVE ReplSeqsOf(_)
ReplSeqsOf(n) ==
    IF n = 0 THEN {<<>>}
    ELSE {Append(s, l) : s \in {t \in ReplSeqsOf(n - 1) :
                                   \A i \in 1..Len(t) : Terminated(t[i])},
                         l \in ReplPool}

ReplSeqs == {s \in UNION {ReplSeqsOf(n) : n \in 1..MaxLen} : PairwiseUnequal(s)}

\* b is a with line i replaced by a line unequal to every line of a
IsReplacementAt(A, B, i) ==
    /\ Len(B) = Len(A)
    /\ i \in 1..Len(A)
    /\ \A j \in 1..Len(A) : j # i => B[j] = A[j]
    /\ \A j \in 1..Len(A) : ~stringEqualIgnoreLF(B[i], A[j])

InitRepl ==
    /\ a \in ReplSeqs
    /\ \E i \in 1..Len(a) : \E l \in ReplPool :
          /\ i < Len(a) => Terminated(l)
          /\ b = [a EXCEPT ![i] = l]
          /\ IsReplacementAt(a, b, i)
    /\ pc = "start"
    /\ sesOut = NoSes
    /\ btOut = NoBt
    /\ solution = <<>>
    /\ applied = <<>>
    /\ cmpA = <<>> /\ cmpB = <<>> /\ cmpRes = NoCmp

NextRepl == CallOperations

SpecRepl == InitRepl /\ [][NextRepl]_vars

(***************************************************************************)
(* Definitions the properties are stated with.                             *)
(***************************************************************************)
M == Len(a)
N == Len(b)

Returned == pc \in {"returned", "applied"}

\* one trailing CR LF removed, otherwise one trailing LF, otherwise nothing
strip(s) ==
    IF Len(s) >= 2 /\ s[Len(s) - 1] = CR /\ s[Len(s)] = LF
    THEN SubSeq(s, 1, Len(s) - 2)
    ELSE IF Len(s) >= 1 /\ s[Len(s)] = LF
    THEN SubSeq(s, 1, Len(s) - 1)
    ELSE s

\* the edit distance by dynamic programming over prefixes: the least number
\* of single-line deletions and insertions taking A[1..i] to B[1..j]
RECURSIVE Dist(_, _, _, _)
Dist(A, B, i, j) ==
    IF i = 0 THEN j
    ELSE IF j = 0 THEN i
    ELSE LET del == 1 + Dist(A, B, i - 1, j)
             ins == 1 + Dist(A, B, i, j - 1)
             best == IF del < ins THEN del ELSE ins
             keep == Dist(A, B, i - 1, j - 1)
         IN IF stringEqualIgnoreLF(A[i], B[j]) /\ keep < best
            THEN keep ELSE best

EditDistance(A, B) == Dist(A, B, Len(A), Len(B))

ContentLen(op) == Len(Deref(op.Content, b))

RECURSIVE Touched(_, _)
Touched(ops, n) ==
    IF n = 0 THEN 0
    ELSE Touched(ops, n - 1)
         + (IF ops[n].Kind = Delete THEN ops[n].I2 - ops[n].I1
            ELSE IF ops[n].Kind = Insert THEN ContentLen(ops[n]) ELSE 0)

Kinds(ops) == {ops[n].Kind : n \in 1..Len(ops)}

(***************************************************************************)
(* C1.  Round trip, as claimed: ApplyEdits(a, Operations(a, b)) is exactly *)
(* b, the same length and every line character for character the line of   *)
(* b.                                                                      *)
(***************************************************************************)
RoundTripExact == pc = "applied" => applied = b

(***************************************************************************)
(* C1, amended.  ApplyEdits(a, Operations(a, b)) is b up to the comparer:  *)
(* it has the length of b and each of its lines is equal to the line of b  *)
(* at the same index as stringEqualIgnoreLF computes equality.             *)
(***************************************************************************)
RoundTripUpToComparer ==
    pc = "applied" =>
        /\ Len(applied) = N
        /\ \A i \in 1..N : stringEqualIgnoreLF(applied[i], b[i])

\* a replay of a Delete and an Insert that gives b back with another
\* terminator on one of its lines
RoundTripWitness ==
    /\ pc = "applied"
    /\ Kinds(solution) = {Delete, Insert}
    /\ applied # b
    /\ \E i \in 1..N : applied[i] # b[i] /\ strip(applied[i]) = strip(b[i])

(***************************************************************************)
(* C2.  Minimality: the lines touched by the returned list, the sum of     *)
(* I2 - I1 over its Deletes plus the sum of len(Content) over its Inserts, *)
(* are as many as the edit distance computed by dynamic programming with   *)
(* stringEqualIgnoreLF as the match.                                       *)
(***************************************************************************)
Minimality ==
    Returned => Touched(solution, Len(solution)) = EditDistance(a, b)

\* a returned list with a Delete and an Insert, for inputs that also share
\* lines (the distance is below M + N)
MinimalityWitness ==
    /\ pc = "returned"
    /\ Kinds(solution) = {Delete, Insert}
    /\ EditDistance(a, b) >= 3
    /\ EditDistance(a, b) < M + N

(***************************************************************************)
(* C3.  Ordering and non-overlap: every returned operation has             *)
(* 0 <= I1 <= I2 <= M, and consecutive operations p, q have                *)
(* p.I1 <= q.I1 and p.I2 <= q.I1.                                          *)
(***************************************************************************)
OrderedNonOverlapping ==
    Returned =>
        /\ \A n \in 1..Len(solution) :
              /\ 0 <= solution[n].I1
              /\ solution[n].I1 <= solution[n].I2
              /\ solution[n].I2 <= M
        /\ \A n \in 1..(Len(solution) - 1) :
              /\ solution[n].I1 <= solution[n + 1].I1
              /\ solution[n].I2 <= solution[n + 1].I1

\* three operations or more, one of them a Delete of a line past the first
OrderedWitness ==
    /\ pc = "returned"
    /\ Len(solution) >= 3
    /\ \E n \in 1..Len(solution) :
          solution[n].Kind = Delete /\ solution[n].I1 > 0

(***************************************************************************)
(* C4.  LineComparer, as claimed: stringEqualIgnoreLF(s, t) completes      *)
(* without an index fault and is true exactly when strip(s) = strip(t).    *)
(***************************************************************************)
ComparerIsStripEquality ==
    cmpRes.status # "none" =>
        /\ cmpRes.status = "return"
        /\ cmpRes.equal <=> (strip(cmpA) = strip(cmpB))

(***************************************************************************)
(* C5.  Empty-side inputs: Operations([], b) for a non-empty b returns     *)
(* exactly one operation, an Insert with I1 = I2 = 0, J1 = 0 and Content   *)
(* all of b; Operations(a, []) for a non-empty a returns exactly one       *)
(* operation, a Delete with I1 = 0 and I2 = len(a).                        *)
(***************************************************************************)
EmptySide ==
    /\ (pc \in {"returned", "applied", "panic"} /\ M = 0 /\ N > 0) =>
          /\ pc # "panic"
          /\ Len(solution) = 1
          /\ solution[1].Kind = Insert
          /\ solution[1].I1 = 0 /\ solution[1].I2 = 0 /\ solution[1].J1 = 0
          /\ Deref(solution[1].Content, b) = b
    /\ (pc \in {"returned", "applied", "panic"} /\ M > 0 /\ N = 0) =>
          /\ pc # "panic"
          /\ Len(solution) = 1
          /\ solution[1].Kind = Delete
          /\ solution[1].I1 = 0 /\ solution[1].I2 = M

\* Operations has returned for an empty a and a b of several lines
EmptySideWitness ==
    /\ pc = "returned"
    /\ M = 0
    /\ N >= 2
    /\ Len(solution) = 1

(***************************************************************************)
(* C6.  Consolidation, as claimed: the returned list never holds two       *)
(* consecutive Deletes p, q with p.I2 = q.I1, nor two consecutive Inserts  *)
(* p, q with p.I1 = q.I1 and p.J1 + len(p.Content) = q.J1.                 *)
(***************************************************************************)
Consolidated ==
    Returned =>
        \A n \in 1..(Len(solution) - 1) :
            LET p == solution[n]
                q == solution[n + 1]
            IN /\ ~(p.Kind = Delete /\ q.Kind = Delete /\ p.I2 = q.I1)
               /\ ~(/\ p.Kind = Insert /\ q.Kind = Insert
                    /\ p.I1 = q.I1
                    /\ p.J1 + ContentLen(p) = q.J1)

(***************************************************************************)
(* C7.  Single-line replacement: when the lines of a are pairwise unequal  *)
(* and b is a with line i replaced by a line unequal to every line of a,   *)
(* Operations(a, b) is exactly [Delete I1 = i, I2 = i+1; Insert            *)
(* I1 = I2 = i+1, J1 = i, Content = [b[i]]], the Delete first.             *)
(***************************************************************************)
SingleLineReplacement ==
    \A i \in 1..M :
        (pc \in {"returned", "panic"} /\ PairwiseUnequal(a)
            /\ IsReplacementAt(a, b, i)) =>
            /\ pc = "returned"
            /\ Len(solution) = 2
            /\ solution[1].Kind = Delete
            /\ solution[1].I1 = i - 1 /\ solution[1].I2 = i
            /\ solution[2].Kind = Insert
            /\ solution[2].I1 = i /\ solution[2].I2 = i
            /\ solution[2].J1 = i - 1
            /\ Deref(solution[2].Content, b) = <<b[i]>>

\* the replaced line is neither the first nor the last line of a
ReplacementWitness ==
    /\ pc = "returned"
    /\ M >= 3
    /\ PairwiseUnequal(a)
    /\ IsReplacementAt(a, b, 2)
    /\ Len(solution) = 2

(***************************************************************************)
(* C8.  Insert content ownership, as claimed: once Operations has          *)
(* returned, overwriting an element of the caller's b leaves the Content   *)
(* of every returned Insert unchanged.                                     *)
(***************************************************************************)
ContentUnchangedByOverwrite ==
    [][(pc = "applied" /\ pc' = "overwritten") =>
          \A n \in 1..Len(solution) :
              Deref(solution[n].Content, b') = Deref(solution[n].Content, b)]_vars

(***************************************************************************)
(* C8, amended.  The Content of a returned Insert is a window onto the     *)
(* caller's b: at every moment after the return it is b[J1 : J1 + len],    *)
(* so a later write to b[j] with J1 <= j < J1 + len shows in               *)
(* Content[j - J1], and a write elsewhere leaves that Content as it was.   *)
(***************************************************************************)
ContentIsWindowOntoB ==
    pc \in {"returned", "applied", "overwritten"} =>
        \A n \in 1..Len(solution) :
            solution[n].Kind = Insert =>
                LET c == Deref(solution[n].Content, b)
                IN c = SubSeq(b, solution[n].J1 + 1, solution[n].J1 + Len(c))

\* the caller has written over a line of b that an Insert carries
OverwriteWitness ==
    /\ pc = "overwritten"
    /\ \E n \in 1..Len(solution) :
          /\ solution[n].Kind = Insert
          /\ \E m \in 1..ContentLen(solution[n]) :
                Deref(solution[n].Content, b)[m] = Scribble

(***************************************************************************)
(* C9.  Solver output, as claimed: shortestEditSequence returns from       *)
(* inside its depth loop at a depth D <= M + N that is the edit distance,  *)
(* and its trace holds a non-empty snapshot at every depth 0..D and none   *)
(* at a greater depth.                                                     *)
(***************************************************************************)
SolverReturnsMinimalDepth ==
    pc \in {"returned", "applied", "panic"} =>
        /\ sesOut.status = "return"
        /\ sesOut.depth <= M + N
        /\ sesOut.depth = EditDistance(a, b)
        /\ \A d \in 0..(Len(sesOut.trace) - 1) :
              (Len(sesOut.trace[d + 1]) > 0) <=> (d <= sesOut.depth)

(***************************************************************************)
(* C10.  No underflow in backtracking: on the trace and offset that        *)
(* shortestEditSequence returned, every position backtrack computes is     *)
(* within 0..M by 0..N, no trace snapshot is read out of bounds, the early *)
(* return on a negative coordinate is not taken, and the terminal          *)
(* breakpoint is recorded.                                                 *)
(***************************************************************************)
LastPosition ==
    IF btOut.walk = <<>> THEN <<M, N>> ELSE btOut.walk[Len(btOut.walk)]

BacktrackInBounds ==
    sesOut.status = "return" =>
        /\ btOut.status = "return"
        /\ \A n \in 1..Len(btOut.walk) :
              /\ 0 <= btOut.walk[n][1] /\ btOut.walk[n][1] <= M
              /\ 0 <= btOut.walk[n][2] /\ btOut.walk[n][2] <= N
        /\ \E d \in 1..Len(btOut.snakes) : btOut.snakes[d] = LastPosition

\* backtrack has stepped back three depths or more
BacktrackWitness ==
    /\ sesOut.status = "return"
    /\ btOut.status = "return"
    /\ Len(btOut.walk) >= 3

====
